---------------------------- MODULE Spec2Model ----------------------------
(***************************************************************************)
(* The DummyJSON Products API suite: the request helper cy.api             *)
(* (cypress/support/e2e.ts), the eleven scenarios of                       *)
(* cypress/e2e/api/products.spec.ts and the runner that executes them      *)
(* with retries: 1.                                                        *)
(*                                                                         *)
(* JSON objects are records (a property is present iff it is in the        *)
(* record's DOMAIN), an array inside an object is a sequence, a body that  *)
(* is an array is [array |-> <<elements>>], and every string the code      *)
(* looks into (titles) is a sequence of one-character strings.             *)
(***************************************************************************)
EXTENDS Integers, Sequences, FiniteSets, TLC

(***************************************************************************)
(* Bounds of the model.                                                    *)
(***************************************************************************)
\* longest list of titles the sorting endpoint answers with
MaxTitles == 4

(***************************************************************************)
(* Strings.                                                                *)
(***************************************************************************)
WhiteSpace == {" ", "\t"}

Digits == {"0", "1", "2", "3", "4", "5", "6", "7", "8", "9"}

DigitVal(c) ==
  CASE c = "0" -> 0 [] c = "1" -> 1 [] c = "2" -> 2 [] c = "3" -> 3
    [] c = "4" -> 4 [] c = "5" -> 5 [] c = "6" -> 6 [] c = "7" -> 7
    [] c = "8" -> 8 [] c = "9" -> 9

\* String.prototype.toLowerCase on one character
LowerChar(c) ==
  CASE c = "A" -> "a" [] c = "B" -> "b" [] c = "C" -> "c" [] c = "E" -> "e"
    [] c = "H" -> "h" [] c = "I" -> "i" [] c = "M" -> "m" [] c = "N" -> "n"
    [] c = "O" -> "o" [] c = "P" -> "p" [] c = "W" -> "w"
    [] OTHER -> c

toLowerCase(s) == [i \in 1..Len(s) |-> LowerChar(s[i])]

\* String.prototype.trim: leading and trailing white space removed
RECURSIVE TrimStart(_)
TrimStart(s) ==
  IF s # <<>> /\ Head(s) \in WhiteSpace THEN TrimStart(Tail(s)) ELSE s

RECURSIVE TrimEnd(_)
TrimEnd(s) ==
  IF s # <<>> /\ s[Len(s)] \in WhiteSpace
  THEN TrimEnd(SubSeq(s, 1, Len(s) - 1))
  ELSE s

trim(s) == TrimEnd(TrimStart(s))

\* s.replace(/\s+/g, ' '): every maximal run of white space becomes one space
RECURSIVE CollapseSpaces(_)
CollapseSpaces(s) ==
  IF s = <<>> THEN <<>>
  ELSE IF Head(s) \in WhiteSpace
       THEN <<" ">> \o CollapseSpaces(TrimStart(s))
       ELSE <<Head(s)>> \o CollapseSpaces(Tail(s))

\* Unicode compatibility decomposition of one character: the identity on
\* ASCII, a ligature falls apart into its letters
Decompose(c) == IF c = "LIG_FI" THEN <<"f", "i">> ELSE <<c>>

RECURSIVE NFKD(_)
NFKD(s) == IF s = <<>> THEN <<>> ELSE Decompose(Head(s)) \o NFKD(Tail(s))

\* products.spec.ts, normalize: (s || '').trim().replace(/\s+/g, ' ')
\*                                .toLowerCase().normalize('NFKD')
normalize(s) == NFKD(toLowerCase(CollapseSpaces(trim(s))))

\* String.prototype.includes
includes(s, sub) ==
  \E i \in 0..(Len(s) - Len(sub)) : SubSeq(s, i + 1, i + Len(sub)) = sub

(***************************************************************************)
(* a.localeCompare(b, 'en', {sensitivity: 'base', numeric: true}):         *)
(* primary weights only (case does not count), white space before digits   *)
(* before letters, and a run of digits compared by its numeric value.      *)
(***************************************************************************)
Letters == <<"a", "b", "c", "e", "f", "h", "i", "m", "n", "o", "p", "w">>

LetterRank(c) == CHOOSE i \in 1..Len(Letters) : Letters[i] = LowerChar(c)

Weight(c) ==
  IF c \in WhiteSpace THEN 0
  ELSE IF c \in Digits THEN 1 + DigitVal(c)
  ELSE 11 + LetterRank(c)

RECURSIVE DigitRunLen(_)
DigitRunLen(s) ==
  IF s # <<>> /\ Head(s) \in Digits THEN 1 + DigitRunLen(Tail(s)) ELSE 0

RECURSIVE NumVal(_)
NumVal(s) == IF s = <<>> THEN 0 ELSE 10 * NumVal(SubSeq(s, 1, Len(s) - 1)) + DigitVal(s[Len(s)])

Drop(s, n) == SubSeq(s, n + 1, Len(s))

RECURSIVE localeCompare(_, _)
localeCompare(a, b) ==
  IF a = <<>> /\ b = <<>> THEN 0
  ELSE IF a = <<>> THEN -1
  ELSE IF b = <<>> THEN 1
  ELSE IF Head(a) \in Digits /\ Head(b) \in Digits
       THEN LET la == DigitRunLen(a)
                lb == DigitRunLen(b)
                na == NumVal(SubSeq(a, 1, la))
                nb == NumVal(SubSeq(b, 1, lb))
            IN IF na < nb THEN -1
               ELSE IF na > nb THEN 1
               ELSE localeCompare(Drop(a, la), Drop(b, lb))
       ELSE IF Weight(Head(a)) < Weight(Head(b)) THEN -1
       ELSE IF Weight(Head(a)) > Weight(Head(b)) THEN 1
       ELSE localeCompare(Tail(a), Tail(b))

\* products.spec.ts, cmp
cmp(a, b) == localeCompare(a, b)

\* the tolerance of the sorting scenario: expect(breaks).to.be.at.most(2)
MaxBreaks == 2

\* every pair out of order, adjacent or not
BreaksAllPairs(titles) ==
  Cardinality({p \in (1..Len(titles)) \X (1..Len(titles)) :
                 p[1] < p[2] /\ cmp(titles[p[1]], titles[p[2]]) > 0})

\* the loop of the sorting scenario:
\*   for (let i = 1; i < titles.length; i++)
\*     if (cmp(titles[i - 1], titles[i]) > 0) breaks++
RECURSIVE BreaksFrom(_, _, _)
BreaksFrom(titles, i, breaks) ==
  IF i < Len(titles)
  THEN BreaksFrom(titles, i + 1,
                  IF cmp(titles[i], titles[i + 1]) > 0 THEN breaks + 1 ELSE breaks)
  ELSE breaks

Breaks(titles) == BreaksFrom(titles, 1, 0)

(***************************************************************************)
(* cypress/support/e2e.ts: the custom command cy.api and the runner        *)
(* configuration.                                                          *)
(***************************************************************************)
\* the options cy.api hands to cy.request, status failures left on (the
\* default of cy.request)
apiFailOnStatus(call) ==
  call @@ [failOnStatusCode |-> TRUE,
           headers |-> [ContentType |-> "application/json"]]

\* Cypress.Commands.add('api', (method, url, body?) => cy.request({...})):
\* call is [method, url] or [method, url, body]
api(call) ==
  call @@ [failOnStatusCode |-> FALSE,
           headers |-> [ContentType |-> "application/json"]]

\* cy.request counts the statuses 2xx and 3xx as success
IsOkStatusCode(status) == status >= 200 /\ status <= 399

\* the outcome of a request that did not complete (DNS, refused, timeout)
TransportError == [error |-> "transport"]

IsResponse(outcome) == "status" \in DOMAIN outcome

\* a helper that catches the transport error and reports it as a status
SettleCaught(options, outcome) ==
  IF ~IsResponse(outcome)
  THEN [response |-> [status |-> 0, body |-> [message |-> "network error"]]]
  ELSE [response |-> outcome]

\* what the chain returned by cy.api settles to: `return cy.request(...)`
\* hands on cy.request's own result, with no handler of its own around it
Settle(options, outcome) ==
  IF ~IsResponse(outcome) THEN [error |-> "transport"]
  ELSE IF options.failOnStatusCode /\ ~IsOkStatusCode(outcome.status)
       THEN [error |-> "status"]
       ELSE [response |-> outcome]

RetriesTwice == 1 + 1

\* defineConfig({ e2e: { retries: 1 } })
retries == 1

(***************************************************************************)
(* cypress/e2e/api/products.spec.ts: the callbacks.  Each is TRUE when     *)
(* every expect of the callback holds and FALSE when one of them throws    *)
(* (or a property of undefined is read).                                   *)
(***************************************************************************)
Str_BMWPencil == <<"B", "M", "W", " ", "P", "e", "n", "c", "i", "l">>

Str_iPhoneGalaxy ==
  <<"i", "P", "h", "o", "n", "e", " ", "G", "a", "l", "a", "x", "y", " ", "+", "1">>

Str_phone == <<"p", "h", "o", "n", "e">>

\* expect(obj).to.have.property(name)
HasProperty(obj, name) == name \in DOMAIN obj

\* a JSON array is [array |-> <<elements>>], a JSON string among the
\* elements of an array is [string |-> s]
IsArray(v) == DOMAIN v = {"array"}

IsString(v) == DOMAIN v = {"string"}

\* it('GET /products returns 30 items by default')
ListingThen(res) ==
  /\ res.status = 200
  /\ HasProperty(res.body, "products")
  /\ Len(res.body.products) = 30
  /\ DOMAIN res.body = {"products", "total", "skip", "limit"}

\* it('GET /products honors limit & skip and supports select fields')
PaginationThen(res) ==
  /\ res.status = 200
  /\ HasProperty(res.body, "limit") /\ res.body.limit = 10
  /\ HasProperty(res.body, "skip") /\ res.body.skip = 10
  /\ HasProperty(res.body, "products")
  /\ Len(res.body.products) = 10
  /\ \A i \in 1..Len(res.body.products) :
       LET p == res.body.products[i]
       IN /\ HasProperty(p, "title")
          /\ HasProperty(p, "price")
          /\ ~HasProperty(p, "description")

\* p.title || ''
TitleOf(p) == IF HasProperty(p, "title") THEN p.title ELSE <<>>

\* it('GET /products supports sorting by title asc')
SortingThen(res) ==
  /\ res.status = 200
  /\ HasProperty(res.body, "products")
  /\ LET titles == [i \in 1..Len(res.body.products) |->
                      normalize(TitleOf(res.body.products[i]))]
     IN Breaks(titles) <= MaxBreaks

\* it('GET /products/:id returns a single product')
LookupThen(res) ==
  /\ res.status = 200
  /\ HasProperty(res.body, "id") /\ res.body.id = 1
  /\ HasProperty(res.body, "title")
  /\ HasProperty(res.body, "price")

\* it('GET /products/search?q=phone returns matching products')
SearchThen(res) ==
  /\ res.status = 200
  /\ HasProperty(res.body, "products")
  /\ Len(res.body.products) > 0
  /\ \E i \in 1..Len(res.body.products) :
       includes(toLowerCase(TitleOf(res.body.products[i])), Str_phone)

\* the first callback of the category scenario, the check that the array
\* is not empty left out
CategoriesThenNoEmptyCheck(res) ==
  /\ res.status = 200
  /\ IsArray(res.body)

\* cy.api('GET', '/products/categories').then(...)
CategoriesThen(res) ==
  /\ res.status = 200
  /\ IsArray(res.body)
  /\ res.body.array # <<>>

\* cy.api('GET', '/products/category-list').then(...)
CategoryListThen(res) ==
  /\ res.status = 200
  /\ IsArray(res.body)
  /\ res.body.array # <<>>

\* const cat = 'smartphones'
cat == "smartphones"

\* cy.api('GET', `/products/category/${cat}?limit=10`).then(...)
ByCategoryThen(res2) ==
  /\ res2.status = 200
  /\ HasProperty(res2.body, "total") /\ res2.body.total > 0
  /\ HasProperty(res2.body, "products")
  /\ Len(res2.body.products) > 0
  /\ \A i \in 1..Len(res2.body.products) :
       /\ HasProperty(res2.body.products[i], "category")
       /\ res2.body.products[i].category = cat

\* it('POST /products/add simulates creation and returns new id')
CreateThen(res) ==
  /\ res.status \in {200, 201}
  /\ HasProperty(res.body, "title") /\ res.body.title = Str_BMWPencil
  /\ HasProperty(res.body, "id")

\* it('PUT /products/:id simulates update')
UpdateThen(res) ==
  /\ res.status = 200
  /\ HasProperty(res.body, "title") /\ res.body.title = Str_iPhoneGalaxy

\* it('PATCH /products/:id simulates partial update')
PatchThen(res) ==
  /\ res.status = 200
  /\ HasProperty(res.body, "price") /\ res.body.price = 999

\* it('DELETE /products/:id simulates deletion and returns isDeleted')
DeleteThen(res) ==
  /\ res.status = 200
  /\ HasProperty(res.body, "isDeleted") /\ res.body.isDeleted = TRUE
  /\ HasProperty(res.body, "deletedOn")

\* the not-found callback with the 200 branch accepting every body
NotFoundThenLoose(res) ==
  /\ res.status \in {404, 200}
  /\ IF res.status = 404
     THEN HasProperty(res.body, "message")
     ELSE TRUE

\* it('Negative: GET non-existing product returns 404')
NotFoundThen(res) ==
  /\ res.status \in {404, 200}
  /\ IF res.status = 404
     THEN HasProperty(res.body, "message")
     ELSE ~(HasProperty(res.body, "id") /\ res.body.id = 999999)

(***************************************************************************)
(* The test bodies: the cy.api calls of each `it`, in the order the body   *)
(* issues them, each with the callback chained on it by .then.             *)
(***************************************************************************)
Get(url) == [method |-> "GET", url |-> url]

\* the category scenario with its two list requests swapped
CategoriesBodySwapped ==
  << [call |-> Get("/products/category-list"), then |-> "categoryList"],
     [call |-> Get("/products/categories"), then |-> "categories"],
     [call |-> Get("/products/category/smartphones?limit=10"), then |-> "byCategory"] >>

\* it('GET categories endpoints return arrays and valid category fetch works')
CategoriesBody ==
  << [call |-> Get("/products/categories"), then |-> "categories"],
     [call |-> Get("/products/category-list"), then |-> "categoryList"],
     [call |-> Get("/products/category/smartphones?limit=10"), then |-> "byCategory"] >>

AllScenarios ==
  << [name |-> "listing",
      body |-> << [call |-> Get("/products"), then |-> "listing"] >>],
     [name |-> "pagination",
      body |-> << [call |-> Get("/products?limit=10&skip=10&select=title,price"),
                   then |-> "pagination"] >>],
     [name |-> "sorting",
      body |-> << [call |-> Get("/products?sortBy=title&order=asc&limit=20&select=title"),
                   then |-> "sorting"] >>],
     [name |-> "lookup",
      body |-> << [call |-> Get("/products/1"), then |-> "lookup"] >>],
     [name |-> "search",
      body |-> << [call |-> Get("/products/search?q=phone"), then |-> "search"] >>],
     [name |-> "categories", body |-> CategoriesBody],
     [name |-> "create",
      body |-> << [call |-> [method |-> "POST", url |-> "/products/add",
                             body |-> [title |-> Str_BMWPencil, price |-> 5]],
                   then |-> "create"] >>],
     [name |-> "update",
      body |-> << [call |-> [method |-> "PUT", url |-> "/products/1",
                             body |-> [title |-> Str_iPhoneGalaxy]],
                   then |-> "update"] >>],
     [name |-> "patch",
      body |-> << [call |-> [method |-> "PATCH", url |-> "/products/1",
                             body |-> [price |-> 999]],
                   then |-> "patch"] >>],
     [name |-> "delete",
      body |-> << [call |-> [method |-> "DELETE", url |-> "/products/1"],
                   then |-> "delete"] >>],
     [name |-> "notFound",
      body |-> << [call |-> Get("/products/999999"), then |-> "notFound"] >>] >>

\* the suite with its last scenario skipped (it.skip)
SuiteLastSkipped == SubSeq(AllScenarios, 1, Len(AllScenarios) - 1)

\* describe('DummyJSON Products API', ...): the scenarios the runner runs
Suite == AllScenarios

Scenarios == 1..Len(Suite)

ScenarioNamed(name) == CHOOSE s \in Scenarios : Suite[s].name = name

\* running a test body only queues its commands: every cy.api and every
\* .then callback, in program order
RECURSIVE Enqueue(_)
Enqueue(body) ==
  IF body = <<>> THEN <<>>
  ELSE << [cmd |-> "api", args |-> Head(body).call, then |-> Head(body).then],
          [cmd |-> "then", fn |-> Head(body).then] >> \o Enqueue(Tail(body))

(***************************************************************************)
(* The external service: what it may answer to each request.               *)
(***************************************************************************)
Statuses == {200, 201, 404, 500}

ErrorBody == [message |-> "Product not found"]

Products(n, p) == [i \in 1..n |-> p]

Page(n, p, skip, limit) ==
  [products |-> Products(n, p), total |-> 194, skip |-> skip, limit |-> limit]

Str_iPhone == <<"i", "P", "h", "o", "n", "e">>

Str_mac == <<"m", "a", "c">>

\* the titles the sorting endpoint draws from: "", " A  c", "a b", "10", "2"
TitleChoices ==
  { <<>>, <<" ", "A", " ", " ", "c">>, <<"a", " ", "b">>, <<"1", "0">>, <<"2">> }

\* longest list of products the search endpoint answers with
MaxHits == 2

Bodies(fn) ==
  CASE fn = "listing" ->
         { Page(30, [id |-> 1], 0, 30), Page(29, [id |-> 1], 0, 30),
           Page(30, [id |-> 1], 0, 30) @@ [extra |-> 0],
           [products |-> Products(30, [id |-> 1]), skip |-> 0, limit |-> 30] }
    [] fn = "pagination" ->
         { Page(n, p, sk, li) :
             n \in {9, 10},
             p \in { [title |-> Str_mac, price |-> 5],
                     [title |-> Str_mac, price |-> 5, description |-> "d"],
                     [title |-> Str_mac] },
             sk \in {0, 10}, li \in {10, 30} }
    [] fn = "sorting" ->
         { [products |-> [i \in 1..Len(f) |-> [title |-> f[i]]]] :
             f \in UNION { [1..n -> TitleChoices] : n \in 0..MaxTitles } }
    [] fn = "lookup" ->
         { [id |-> 1, title |-> Str_iPhone, price |-> 549],
           [id |-> 2, title |-> Str_iPhone, price |-> 549],
           [id |-> 1, title |-> Str_iPhone],
           [id |-> 1, price |-> 549] }
    [] fn = "search" ->
         { [products |-> f] :
             f \in UNION { [1..n -> { [title |-> Str_iPhone], [title |-> Str_mac],
                                      [id |-> 7] }] : n \in 0..MaxHits } }
    [] fn \in {"categories", "categoryList"} ->
         { [array |-> <<>>],
           [array |-> << [string |-> "beauty"] >>],
           [array |-> << [slug |-> "beauty", name |-> "Beauty", url |-> "u"] >>],
           [array |-> << [slug |-> "beauty"] >>],
           [array |-> << [number |-> 1] >>] }
    [] fn = "byCategory" ->
         { [products |-> ps, total |-> t] :
             ps \in { <<>>, << [category |-> "smartphones"] >>,
                      << [category |-> "smartphones"], [category |-> "laptops"] >>,
                      << [id |-> 1] >> },
             t \in {0, 16} }
    [] fn = "create" ->
         { [id |-> 195, title |-> Str_BMWPencil, price |-> 5],
           [title |-> Str_BMWPencil, price |-> 5],
           [id |-> 195, title |-> Str_mac, price |-> 5] }
    [] fn = "update" ->
         { [id |-> 1, title |-> Str_iPhoneGalaxy],
           [id |-> 1, title |-> Str_iPhone],
           [id |-> 1] }
    [] fn = "patch" ->
         { [id |-> 1, price |-> 999], [id |-> 1, price |-> 549], [id |-> 1] }
    [] fn = "delete" ->
         { [id |-> 1, isDeleted |-> TRUE, deletedOn |-> "2026"],
           [id |-> 1, isDeleted |-> FALSE, deletedOn |-> "2026"],
           [id |-> 1, isDeleted |-> TRUE],
           [id |-> 1] }
    [] fn = "notFound" ->
         { [id |-> 999999, title |-> Str_mac], [id |-> 1, title |-> Str_mac],
           [id |-> 999999, message |-> "m"], [title |-> Str_mac] }

\* every response the service may give to the request whose callback is fn:
\* every status with every body (for the sorting endpoint, whose bodies are
\* many, every body with 200 and every status with the error body)
Answers(fn) ==
  IF fn = "sorting"
  THEN { [status |-> 200, body |-> b] : b \in Bodies(fn) }
         \cup { [status |-> st, body |-> ErrorBody] : st \in Statuses }
  ELSE { [status |-> st, body |-> b] :
           st \in Statuses, b \in Bodies(fn) \cup {ErrorBody} }

\* the response the real service gives when it works as documented
GoodAnswer(fn) ==
  CASE fn = "listing" ->
         [status |-> 200, body |-> Page(30, [id |-> 1], 0, 30)]
    [] fn = "pagination" ->
         [status |-> 200, body |-> Page(10, [title |-> Str_mac, price |-> 5], 10, 10)]
    [] fn = "sorting" ->
         [status |-> 200, body |-> [products |-> << [title |-> <<"2">>], [title |-> <<"1", "0">>] >>]]
    [] fn = "lookup" ->
         [status |-> 200, body |-> [id |-> 1, title |-> Str_iPhone, price |-> 549]]
    [] fn = "search" ->
         [status |-> 200, body |-> [products |-> << [title |-> Str_iPhone] >>]]
    [] fn = "categories" ->
         [status |-> 200, body |-> [array |-> << [string |-> "beauty"] >>]]
    [] fn = "categoryList" ->
         [status |-> 200,
          body |-> [array |-> << [slug |-> "beauty", name |-> "Beauty", url |-> "u"] >>]]
    [] fn = "byCategory" ->
         [status |-> 200,
          body |-> [products |-> << [category |-> "smartphones"] >>, total |-> 16]]
    [] fn = "create" ->
         [status |-> 201, body |-> [id |-> 195, title |-> Str_BMWPencil, price |-> 5]]
    [] fn = "update" ->
         [status |-> 200, body |-> [id |-> 1, title |-> Str_iPhoneGalaxy]]
    [] fn = "patch" ->
         [status |-> 200, body |-> [id |-> 1, price |-> 999]]
    [] fn = "delete" ->
         [status |-> 200, body |-> [id |-> 1, isDeleted |-> TRUE, deletedOn |-> "2026"]]
    [] fn = "notFound" ->
         [status |-> 404, body |-> ErrorBody]

(***************************************************************************)
(* The state of a run.                                                     *)
(***************************************************************************)
VARIABLES
  results,   \* per scenario: "pending", "running", "passed" or "failed"
  cur,       \* the scenario that runs, or ran last (0 before the first)
  attempt,   \* the number of the current attempt of cur
  pc,        \* "idle", "ready" (a test body is about to run), "running"
             \* (the command queue is being worked off), "ended"
  queue,     \* the commands of the attempt that are still to run
  inflight,  \* the requests sent and not yet answered
  sent,      \* the urls requested in this attempt, in order
  answers,   \* what the service did with them, in order
  yields,    \* the response descriptors cy.api yielded in this attempt
  thens,     \* the callbacks run in this attempt, each with its verdict
  err,       \* why the attempt failed: "none", "assertion", "transport", "status"
  log,       \* the outcomes of the attempts of cur
  svc,       \* the behaviour of the external service in this run
  anyOrder,  \* whether the scenarios run in an arbitrary order
  alone      \* per scenario, the result it has when it is the only one run
             \* against svc ("any" when svc fixes no answer)

vars == << results, cur, attempt, pc, queue, inflight, sent, answers, yields,
           thens, err, log, svc, anyOrder, alone >>

\* the callbacks of a suite whose scenarios share state: the lookup of
\* product 1 also expects that the deletion of product 1 has not run
CallbackSharedState(fn, res) ==
  CASE fn = "listing" -> ListingThen(res)
    [] fn = "pagination" -> PaginationThen(res)
    [] fn = "sorting" -> SortingThen(res)
    [] fn = "lookup" ->
         LookupThen(res) /\ results[ScenarioNamed("delete")] = "pending"
    [] fn = "search" -> SearchThen(res)
    [] fn = "categories" -> CategoriesThen(res)
    [] fn = "categoryList" -> CategoryListThen(res)
    [] fn = "byCategory" -> ByCategoryThen(res)
    [] fn = "create" -> CreateThen(res)
    [] fn = "update" -> UpdateThen(res)
    [] fn = "patch" -> PatchThen(res)
    [] fn = "delete" -> DeleteThen(res)
    [] fn = "notFound" -> NotFoundThen(res)

\* the callback chained on a cy.api by .then(...), by the name it has here
Callback(fn, res) ==
  CASE fn = "listing" -> ListingThen(res)
    [] fn = "pagination" -> PaginationThen(res)
    [] fn = "sorting" -> SortingThen(res)
    [] fn = "lookup" -> LookupThen(res)
    [] fn = "search" -> SearchThen(res)
    [] fn = "categories" -> CategoriesThen(res)
    [] fn = "categoryList" -> CategoryListThen(res)
    [] fn = "byCategory" -> ByCategoryThen(res)
    [] fn = "create" -> CreateThen(res)
    [] fn = "update" -> UpdateThen(res)
    [] fn = "patch" -> PatchThen(res)
    [] fn = "delete" -> DeleteThen(res)
    [] fn = "notFound" -> NotFoundThen(res)

Pending == { s \in Scenarios : results[s] = "pending" }

Min(S) == CHOOSE x \in S : \A y \in S : x <= y

\* the runner takes the scenarios in the order of the file
Candidates == IF anyOrder THEN Pending ELSE { Min(Pending) }

\* what the service may do with the request whose callback is fn
Allowed(fn) ==
  IF svc.kind = "any" THEN Answers(fn) \cup {TransportError}
  ELSE IF fn \in svc.faulty
       THEN CASE svc.fault = "transport" -> {TransportError}
              [] svc.fault = "status" ->
                   { [status |-> 500, body |-> GoodAnswer(fn).body] }
              [] svc.fault = "body" -> { [status |-> 200, body |-> ErrorBody] }
       ELSE { GoodAnswer(fn) }

\* the one answer a fixed behaviour of the service gives
FixedAnswer(fn) == CHOOSE a \in Allowed(fn) : TRUE

\* the result of scenario s when the test body of s is the only one run,
\* against the fixed service
Alone(s) ==
  IF \A i \in 1..Len(Suite[s].body) :
       LET a == FixedAnswer(Suite[s].body[i].then)
       IN IsResponse(a) /\ Callback(Suite[s].body[i].then, a)
  THEN "passed"
  ELSE "failed"

InitRun ==
  /\ results = [s \in Scenarios |-> "pending"]
  /\ cur = 0
  /\ attempt = 0
  /\ pc = "idle"
  /\ queue = <<>>
  /\ inflight = {}
  /\ sent = <<>>
  /\ answers = <<>>
  /\ yields = <<>>
  /\ thens = <<>>
  /\ err = "none"
  /\ log = <<>>

\* a run against a service that may answer anything, in file order
Init ==
  /\ InitRun
  /\ svc = [kind |-> "any"]
  /\ anyOrder = FALSE
  /\ alone = [s \in Scenarios |-> "any"]

\* the requests whose answer a fixed behaviour of the service may spoil
FaultySets ==
  { {"lookup"}, {"delete"}, {"update", "patch"}, {"categoryList"},
    {"sorting", "notFound"} }

\* the fixed behaviours: the documented one, and those that spoil the
\* answers of one set of requests in one way
Profiles ==
  { [kind |-> "fixed", faulty |-> {}, fault |-> "body"] }
    \cup { [kind |-> "fixed", faulty |-> F, fault |-> k] :
             F \in FaultySets, k \in {"transport", "status", "body"} }

\* a run against a service whose behaviour is fixed, in any order
InitPerm ==
  /\ InitRun
  /\ svc \in Profiles
  /\ anyOrder = TRUE
  /\ alone = [s \in Scenarios |-> Alone(s)]

(***************************************************************************)
(* The runner and the command queue.                                       *)
(***************************************************************************)
\* the runner starts the next scenario
NextTest ==
  /\ pc = "idle"
  /\ Pending # {}
  /\ \E s \in Candidates :
       /\ cur' = s
       /\ results' = [results EXCEPT ![s] = "running"]
  /\ attempt' = 0
  /\ log' = <<>>
  /\ pc' = "ready"
  /\ UNCHANGED << queue, inflight, sent, answers, yields, thens, err, svc, anyOrder, alone >>

\* an attempt: the test body runs and queues its commands
RunTestBody ==
  /\ pc = "ready"
  /\ attempt' = attempt + 1
  /\ queue' = Enqueue(Suite[cur].body)
  /\ sent' = <<>>
  /\ answers' = <<>>
  /\ yields' = <<>>
  /\ thens' = <<>>
  /\ err' = "none"
  /\ pc' = "running"
  /\ UNCHANGED << results, cur, inflight, log, svc, anyOrder, alone >>

InFlight(c) == [options |-> api(c.args), for |-> c.then]

\* every request of the queue sent at once
DispatchAll(q) ==
  { InFlight(q[i]) : i \in { j \in 1..Len(q) : q[j].cmd = "api" } }

\* the request a cy.api command sends when it is taken off the queue
Dispatch(q) == { InFlight(Head(q)) }

\* the command at the head of the queue is a cy.api: cy.request is issued
ApiCommand ==
  /\ pc = "running"
  /\ inflight = {}
  /\ queue # <<>>
  /\ Head(queue).cmd = "api"
  /\ inflight' = inflight \cup Dispatch(queue)
  /\ sent' = Append(sent, Head(queue).args.url)
  /\ queue' = Tail(queue)
  /\ UNCHANGED << results, cur, attempt, pc, answers, yields, thens, err, log,
                  svc, anyOrder, alone >>

\* the request r ends with outcome out
Complete(r, out) ==
  LET settled == Settle(r.options, out)
  IN /\ inflight' = inflight \ {r}
     /\ answers' = Append(answers, out)
     /\ IF "response" \in DOMAIN settled
        THEN /\ yields' = Append(yields, settled.response)
             /\ UNCHANGED << err, pc, queue >>
        ELSE /\ err' = settled.error
             /\ pc' = "ended"
             /\ queue' = <<>>
             /\ UNCHANGED yields
     /\ UNCHANGED << results, cur, attempt, sent, thens, log, svc, anyOrder, alone >>

\* the service answers a request with a status and a body
ResponseArrives ==
  /\ pc = "running"
  /\ \E r \in inflight : \E out \in Allowed(r.for) :
       IsResponse(out) /\ Complete(r, out)

\* a request does not complete
RequestErrors ==
  /\ pc = "running"
  /\ \E r \in inflight : \E out \in Allowed(r.for) :
       ~IsResponse(out) /\ Complete(r, out)

\* the command at the head of the queue is a .then callback: it runs on the
\* subject, the response the cy.api before it yielded
ThenCallback ==
  /\ pc = "running"
  /\ inflight = {}
  /\ queue # <<>>
  /\ Head(queue).cmd = "then"
  /\ yields # <<>>
  /\ LET ok == Callback(Head(queue).fn, yields[Len(yields)])
     IN /\ thens' = Append(thens, [fn |-> Head(queue).fn, ok |-> ok])
        /\ IF ok
           THEN /\ queue' = Tail(queue)
                /\ pc' = IF Tail(queue) = <<>> THEN "ended" ELSE "running"
                /\ UNCHANGED err
           ELSE /\ queue' = <<>>
                /\ pc' = "ended"
                /\ err' = "assertion"
  /\ UNCHANGED << results, cur, attempt, inflight, sent, answers, yields, log,
                  svc, anyOrder, alone >>

\* the attempt ended without a failure: the scenario passes
TestPasses ==
  /\ pc = "ended"
  /\ err = "none"
  /\ log' = Append(log, "passed")
  /\ results' = [results EXCEPT ![cur] = "passed"]
  /\ pc' = "idle"
  /\ sent' = <<>>
  /\ answers' = <<>>
  /\ yields' = <<>>
  /\ thens' = <<>>
  /\ UNCHANGED << cur, attempt, queue, inflight, err, svc, anyOrder, alone >>

\* the attempt failed and a retry is left: the scenario is attempted again
TestRetries ==
  /\ pc = "ended"
  /\ err # "none"
  /\ attempt <= retries
  /\ log' = Append(log, err)
  /\ pc' = "ready"
  /\ UNCHANGED << results, cur, attempt, queue, inflight, sent, answers, yields,
                  thens, err, svc, anyOrder, alone >>

\* the attempt failed and no retry is left: the scenario fails
TestFails ==
  /\ pc = "ended"
  /\ err # "none"
  /\ attempt > retries
  /\ log' = Append(log, err)
  /\ results' = [results EXCEPT ![cur] = "failed"]
  /\ pc' = "idle"
  /\ sent' = <<>>
  /\ answers' = <<>>
  /\ yields' = <<>>
  /\ thens' = <<>>
  /\ err' = "none"
  /\ UNCHANGED << cur, attempt, queue, inflight, svc, anyOrder, alone >>

Next ==
  \/ NextTest
  \/ RunTestBody
  \/ ApiCommand
  \/ ResponseArrives
  \/ RequestErrors
  \/ ThenCallback
  \/ TestPasses
  \/ TestRetries
  \/ TestFails

Spec == Init /\ [][Next]_vars

SpecPerm == InitPerm /\ [][Next]_vars

(***************************************************************************)
(* Properties.                                                             *)
(***************************************************************************)
AllDone == pc = "idle" /\ Pending = {}

Last(q) == q[Len(q)]

IsPrefix(p, q) == Len(p) <= Len(q) /\ SubSeq(q, 1, Len(p)) = p

Running(name) == cur # 0 /\ Suite[cur].name = name /\ results[cur] = "running"

\* C1: whatever status the service answers with (2xx, 4xx or 5xx), cy.api
\* yields a response descriptor holding that status and body and never
\* fails the attempt because of the status; when a response was received and
\* the attempt failed, an assertion of the scenario failed it.
C1_NeverRaisesOnStatus ==
  /\ err # "status"
  /\ yields = SelectSeq(answers, IsResponse)
  /\ \A i \in 1..Len(yields) :
       yields[i].status \in Statuses /\ HasProperty(yields[i], "body")
  /\ (answers # <<>> /\ IsResponse(Last(answers)) /\ err # "none")
       => err = "assertion"

\* the not-found scenario received a 404, the helper yielded it and the
\* scenario's own assertions let the attempt pass
C1_Witness ==
  /\ Running("notFound")
  /\ pc = "ended"
  /\ err = "none"
  /\ Len(yields) = 1
  /\ yields[1].status = 404
  /\ thens = << [fn |-> "notFound", ok |-> TRUE] >>

\* the parts of C2 that do not depend on how many callbacks have run
C2_Common ==
  /\ yields = SelectSeq(answers, IsResponse)
  /\ \A i \in 1..Len(answers) : ~IsResponse(answers[i]) => i = Len(answers)
  /\ Len(sent) = Len(answers) + Cardinality(inflight)
  /\ \A i, j \in 1..Len(sent) : sent[i] = sent[j] => i = j
  /\ err = "transport" <=> (answers # <<>> /\ ~IsResponse(Last(answers)))
  /\ err = "transport" => (pc # "running" /\ queue = <<>> /\ inflight = {})

\* C2 as stated: a request that cannot complete yields no descriptor, fails
\* the attempt with none of the attempt's assertions having run, is not
\* retried by the helper, is never turned into a status, and a received
\* status is never turned into a transport failure.
C2_Original ==
  /\ C2_Common
  /\ err = "transport" => thens = <<>>

\* C2 as amended: as C2, but the assertions that do not run are those on the
\* failed request and on every later request of the attempt; the callbacks
\* of the requests answered before it have already run.
C2_TransportFailure ==
  /\ C2_Common
  /\ err = "transport" =>
       /\ Len(thens) = Len(answers) - 1
       /\ Len(yields) = Len(answers) - 1
       /\ \A i \in 1..Len(thens) : thens[i].ok

\* the second request of the category scenario did not complete, after the
\* callback of the first had run
C2_Witness ==
  /\ Running("categories")
  /\ err = "transport"
  /\ Len(sent) = 2
  /\ Len(yields) = 1
  /\ thens = << [fn |-> "categories", ok |-> TRUE] >>

\* C3: a scenario is attempted at most twice; after a first attempt that
\* passed there is no second one; a first attempt that failed, by assertion
\* or by transport alike, is followed by exactly one more; the scenario is
\* reported failed only when both attempts failed.
C3_OneRetry ==
  /\ attempt <= 2
  /\ Len(log) <= 2
  /\ cur # 0 =>
       /\ (log # <<>> /\ log[1] = "passed") => (Len(log) = 1 /\ attempt = 1)
       /\ results[cur] = "passed" =>
            (log = << "passed" >> \/ (Len(log) = 2 /\ log[1] # "passed" /\ log[2] = "passed"))
       /\ results[cur] = "failed" =>
            (Len(log) = 2 /\ log[1] # "passed" /\ log[2] # "passed")
       /\ results[cur] \in {"passed", "failed"} => attempt = Len(log)
       /\ (log # <<>> /\ log[1] # "passed" /\ pc = "idle") => attempt = 2
       /\ \A i \in 1..Len(log) : log[i] \in {"passed", "assertion", "transport"}

\* a first attempt failed by transport, the one retry failed by assertion,
\* and the scenario is reported failed
C3_Witness ==
  /\ cur # 0
  /\ results[cur] = "failed"
  /\ log = << "transport", "assertion" >>
  /\ attempt = 2

\* C4: when the run is over every one of the 11 scenarios has been run and
\* has a result, whatever the results of the others; and a step changes the
\* result of the scenario that runs and of no other, so that a reported
\* result never changes.
C4_FailureConfined ==
  /\ [](AllDone => /\ Len(Suite) = 11
                   /\ \A s \in 1..11 : results[s] \in {"passed", "failed"})
  /\ [](pc = "idle" => (Pending = {} \/ ENABLED NextTest))
  /\ [][\A s \in Scenarios :
          results'[s] # results[s] =>
            (s = cur' /\ results[s] \in {"pending", "running"})]_vars

\* the run is over: the first scenario failed, the last one passed
C4_Witness ==
  /\ AllDone
  /\ results[1] = "failed"
  /\ results[6] = "failed"
  /\ results[2] = "passed"
  /\ results[11] = "passed"

\* C5: against a service of fixed behaviour, in whatever order the
\* scenarios run, the result of every scenario is the one it has when it is
\* the only scenario run.
C5_OrderIndependent ==
  \A s \in Scenarios : results[s] \in {"passed", "failed"} => results[s] = alone[s]

\* PUT, PATCH and DELETE on product 1 ran first and passed, then the lookup
\* of product 1 passed, while the scenarios before it in the file still wait
C5_Witness ==
  /\ results[ScenarioNamed("update")] = "passed"
  /\ results[ScenarioNamed("patch")] = "passed"
  /\ results[ScenarioNamed("delete")] = "passed"
  /\ cur = ScenarioNamed("lookup")
  /\ results[cur] = "passed"
  /\ results[ScenarioNamed("listing")] = "pending"
  /\ Cardinality(Pending) = 7

\* C6: at most one scenario runs, at most one request is in flight, and a
\* request is sent only when every earlier request of the attempt has been
\* answered and its response yielded.
C6_Sequential ==
  /\ Cardinality({ s \in Scenarios : results[s] = "running" }) <= 1
  /\ Cardinality(inflight) <= 1
  /\ Len(sent) = Len(answers) + Cardinality(inflight)
  /\ inflight # {} => (Len(yields) = Len(sent) - 1 /\ Len(thens) = Len(sent) - 1)

\* the third request of the category scenario is in flight, the first two
\* have been answered
C6_Witness ==
  /\ Running("categories")
  /\ Len(sent) = 3
  /\ Cardinality(inflight) = 1
  /\ Len(answers) = 2
  /\ Len(yields) = 2

\* C7: an attempt of the not-found scenario that received a response passes
\* exactly when the status is 404 and the body has a message, or the status
\* is 200 and the body has no id equal to 999999.
C7_NotFoundOracle ==
  (Running("notFound") /\ pc = "ended" /\ yields # <<>>) =>
    LET res == yields[1]
    IN err = "none" <=>
         \/ res.status = 404 /\ "message" \in DOMAIN res.body
         \/ res.status = 200 /\ ("id" \in DOMAIN res.body => res.body.id # 999999)

\* a 200 whose body carries another id than the requested one passed
C7_Witness ==
  /\ Running("notFound")
  /\ pc = "ended"
  /\ err = "none"
  /\ yields # <<>>
  /\ yields[1].status = 200
  /\ HasProperty(yields[1].body, "id")
  /\ yields[1].body.id = 1

\* the normalized titles of a response of the sorting endpoint
NormalizedTitles(res) ==
  [i \in 1..Len(res.body.products) |-> normalize(TitleOf(res.body.products[i]))]

\* the adjacent pairs of titles that are out of ascending order
AdjacentInversions(titles) ==
  { i \in 1..(Len(titles) - 1) : cmp(titles[i], titles[i + 1]) > 0 }

\* C8: an attempt of the sorting scenario that received a response passes
\* exactly when the status is 200 and at most 2 adjacent pairs of the
\* normalized titles are out of ascending order.
C8_SortingOracle ==
  (Running("sorting") /\ pc = "ended" /\ yields # <<>>) =>
    LET res == yields[1]
    IN err = "none" <=>
         /\ res.status = 200
         /\ HasProperty(res.body, "products")
         /\ Cardinality(AdjacentInversions(NormalizedTitles(res))) <= 2

\* three titles with two adjacent inversions, and three inversions over all
\* pairs, passed
C8_Witness ==
  /\ Running("sorting")
  /\ pc = "ended"
  /\ err = "none"
  /\ yields # <<>>
  /\ Len(yields[1].body.products) = 3
  /\ Cardinality(AdjacentInversions(NormalizedTitles(yields[1]))) = 2
  /\ BreaksAllPairs(NormalizedTitles(yields[1])) = 3

IsCategoryRecord(v) == DOMAIN v = {"slug", "name", "url"}

ByCategoryHolds(res) ==
  /\ res.status = 200
  /\ HasProperty(res.body, "total") /\ res.body.total > 0
  /\ HasProperty(res.body, "products") /\ Len(res.body.products) >= 1
  /\ \A i \in 1..Len(res.body.products) :
       /\ "category" \in DOMAIN res.body.products[i]
       /\ res.body.products[i].category = "smartphones"

NonEmptyArray(res) ==
  res.status = 200 /\ IsArray(res.body) /\ Len(res.body.array) > 0

\* C9 as stated: an attempt of the category scenario passes only if the
\* first list is a non-empty sequence of strings, the second a non-empty
\* sequence of {slug, name, url} records, and the by-category page has
\* total > 0, a product, and only products of the requested category.
C9_Original ==
  (Running("categories") /\ pc = "ended" /\ err = "none") =>
    /\ Len(yields) = 3
    /\ NonEmptyArray(yields[1])
    /\ \A i \in 1..Len(yields[1].body.array) : IsString(yields[1].body.array[i])
    /\ NonEmptyArray(yields[2])
    /\ \A i \in 1..Len(yields[2].body.array) : IsCategoryRecord(yields[2].body.array[i])
    /\ ByCategoryHolds(yields[3])

\* C9 as amended: an attempt of the category scenario passes exactly when
\* both lists are answered with 200 and a non-empty array, whatever its
\* elements are, and the by-category page is answered with 200, total > 0,
\* a product, and only products of the requested category.
C9_CategoriesOracle ==
  (Running("categories") /\ pc = "ended") =>
    /\ err = "none" <=>
         /\ Len(yields) = 3
         /\ NonEmptyArray(yields[1])
         /\ NonEmptyArray(yields[2])
         /\ ByCategoryHolds(yields[3])
    /\ \A i \in 1..Len(yields) :
         (i <= 2 /\ Len(thens) >= i /\ ~NonEmptyArray(yields[i])) => err = "assertion"

\* the attempt passed although the first list holds no string and the
\* second no {slug, name, url} record
C9_Witness ==
  /\ Running("categories")
  /\ pc = "ended"
  /\ err = "none"
  /\ Len(yields) = 3
  /\ ~IsString(yields[1].body.array[1])
  /\ ~IsCategoryRecord(yields[2].body.array[1])

CategoryUrls ==
  << "/products/categories", "/products/category-list",
     "/products/category/smartphones?limit=10" >>

\* C10: in an attempt of the category scenario the requests go out in the
\* order categories, category-list, by-category; a request goes out only
\* when every earlier request was answered and its callback passed; and
\* after the first failure nothing more goes out.
C10_FirstFailureEnds ==
  Running("categories") =>
    /\ IsPrefix(sent, CategoryUrls)
    /\ \A i \in 2..Len(sent) :
         /\ Len(thens) >= i - 1
         /\ \A j \in 1..(i - 1) : IsResponse(answers[j]) /\ thens[j].ok
    /\ err # "none" =>
         /\ queue = <<>> /\ inflight = {}
         /\ Len(sent) = Len(answers)
         /\ err = "assertion" => (Len(thens) = Len(sent) /\ ~Last(thens).ok)

\* the callback of the second response failed: the attempt ended and the
\* by-category request was never sent
C10_Witness ==
  /\ Running("categories")
  /\ pc = "ended"
  /\ err = "assertion"
  /\ sent = SubSeq(CategoryUrls, 1, 2)
  /\ Len(thens) = 2
  /\ thens[1].ok
  /\ ~thens[2].ok

=============================================================================
